---- MODULE Spec2Model ----
(***************************************************************************)
(* fin-space: release lifecycle and placement engine.                      *)
(*                                                                         *)
(* The filesystem is a map from (section path, directory name) to a        *)
(* directory; a free-space reading is what `df -BG` yields for a device.   *)
(* Every handler (findOldestDirectory, manageArchive, manageIncoming) is   *)
(* translated statement by statement; what the external tools (df, rclone, *)
(* rm, touch) and the kernel answer is drawn from small sets.              *)
(***************************************************************************)
EXTENDS Integers, Sequences, FiniteSets, TLC

VARIABLES config, fs, now, last, main

vars == <<config, fs, now, last, main>>

(* ------------------------------ bounds --------------------------------- *)

\* free-space readings are 0..MaxFree (whole gigabytes)
MaxFree == 2

\* directories the environment creates: at most MaxReleases at a time
MaxReleases == 2

\* the scan inputs have ages within MaxAgeSkew ms of one day
MaxAgeSkew == 1

\* a column of df's output has at most MaxFieldLen characters
MaxFieldLen == 2

\* the rounds of main that are followed to their end; of the next round only
\* the start is
MaxRounds == 1

(* ------------------------- program constants --------------------------- *)

OneDayInMs == 24 * 60 * 60 * 1000

\* bytes per "GB" in manageArchive's capacity test (size / 1024)
ArchiveSizeDivisor == 1024

\* bytes per "GB" in manageIncoming's pre-check (size / 1024 / 1024)
IncomingSizeDivisor == 1024 * 1024

\* bytes per MB in the announcements (1024 ** 2)
BytesPerMB == 1024 * 1024

(* ------------------------------ the loop ------------------------------- *)

\* main has not been entered: a handler is exercised on its own
NotStarted == [pc |-> "none"]

(* --------------------------- the filesystem ---------------------------- *)

\* directory names are sequences of characters
Digits == {"0", "1", "2", "3", "4", "5", "6", "7", "8", "9"}

Names == {<<"1", "2">>, <<"x">>}

\* the orders in which readdir may list a directory's entries
ReaddirOrders == {o \in [1..Cardinality(Names) -> Names] : \A n \in Names : \E i \in DOMAIN o : o[i] = n}

\* no directory at a path
NoDir == [n |-> -1, mtime |-> 0, size |-> 0]

Exists(d) == d.n >= 0

\* a mutant: a section is listed whatever its own state
ListableAlways(sectionPath) == TRUE

\* fs.readdir(sectionPath) succeeds: the section directory itself, where the
\* filesystem has an entry for it (the empty name), is there and can be read
Listable(sectionPath) ==
    <<sectionPath, <<>>>> \in DOMAIN fs => Exists(fs[<<sectionPath, <<>>>>])

\* fs.stat(dir.path) throws (the entry vanished, or may not be examined)
StatFails(d) == "stat" \in DOMAIN d /\ ~d.stat

\* fs.readdir(sectionPath) filtered to directories, in the listing order `order`
readdir(sectionPath, order) ==
    SelectSeq(order, LAMBDA nm : <<sectionPath, nm>> \in DOMAIN fs /\ Exists(fs[<<sectionPath, nm>>]))

(* ----------------------------- the scan -------------------------------- *)

\* null
NoRelease == [path |-> <<"", <<>>>>, name |-> <<>>, mtime |-> 0, size |-> 0, section |-> ""]

\* isOlderThanOneDay: now - stats.mtimeMs > oneDayInMs
isOlderThanOneDay(dirPath) ==
    now - fs[dirPath].mtime > OneDayInMs

\* sizes.reduce((acc, size) => acc + size, 0), a file whose stat fails giving 0
RECURSIVE SumSizes(_)
SumSizes(files) ==
    IF files = <<>> THEN 0
    ELSE (IF Head(files).readable THEN Head(files).size ELSE 0) + SumSizes(Tail(files))

\* getDirectorySize(dirPath): where the directory's files are listed one by
\* one their sizes are summed, else the directory's byte count is taken whole
getDirectorySize(dirPath) ==
    IF "files" \in DOMAIN fs[dirPath] THEN SumSizes(fs[dirPath].files) ELSE fs[dirPath].size

\* the per-directory callback of findOldestDirectory: null (dropped) or the entry
DirectoryWithStats(sec, nm) ==
    LET p == <<sec.path, nm>> IN
    IF StatFails(fs[p]) THEN NoRelease
    ELSE IF sec.dated /\ ~isOlderThanOneDay(p)
    THEN NoRelease
    ELSE [path |-> p, name |-> nm, mtime |-> fs[p].mtime, size |-> getDirectorySize(p),
          section |-> sec.section]

\* Array.prototype.sort((a, b) => a.mtime - b.mtime): stable, ascending
RECURSIVE InsertByMtime(_, _)
InsertByMtime(sorted, d) ==
    IF sorted = <<>> THEN <<d>>
    ELSE IF Head(sorted).mtime <= d.mtime
         THEN <<Head(sorted)>> \o InsertByMtime(Tail(sorted), d)
         ELSE <<d>> \o sorted

RECURSIVE SortByMtime(_)
SortByMtime(dirs) ==
    IF dirs = <<>> THEN <<>>
    ELSE InsertByMtime(SortByMtime(SubSeq(dirs, 1, Len(dirs) - 1)), dirs[Len(dirs)])

\* one section's valid directories, sorted
ValidDirectories(sec, order) ==
    LET directories == readdir(sec.path, order)
        withStats == [i \in 1..Len(directories) |-> DirectoryWithStats(sec, directories[i])]
    IN IF ~Listable(sec.path) THEN <<>>
       ELSE SortByMtime(SelectSeq(withStats, LAMBDA d : d # NoRelease))

\* a mutant of the global comparison: the newer candidate is kept
NewGlobalNewest(globalOldestRelease, oldestRelease) ==
    IF globalOldestRelease = NoRelease \/ oldestRelease.mtime > globalOldestRelease.mtime
    THEN oldestRelease
    ELSE globalOldestRelease

\* a mutant of the global comparison: a later section wins a tie
NewGlobalOldestOnTie(globalOldestRelease, oldestRelease) ==
    IF globalOldestRelease = NoRelease \/ oldestRelease.mtime <= globalOldestRelease.mtime
    THEN oldestRelease
    ELSE globalOldestRelease

\* if (!globalOldestRelease || oldestRelease.mtime < globalOldestRelease.mtime)
NewGlobalOldest(globalOldestRelease, oldestRelease) ==
    IF globalOldestRelease = NoRelease \/ oldestRelease.mtime < globalOldestRelease.mtime
    THEN oldestRelease
    ELSE globalOldestRelease

\* the loop of findOldestDirectory over sections[i..], from globalOldestRelease
RECURSIVE FindOldestFrom(_, _, _, _)
FindOldestFrom(sections, i, globalOldestRelease, order) ==
    IF i > Len(sections) THEN globalOldestRelease
    ELSE LET validDirectories == ValidDirectories(sections[i], order) IN
         IF validDirectories = <<>>
         THEN FindOldestFrom(sections, i + 1, globalOldestRelease, order)
         ELSE FindOldestFrom(sections, i + 1,
                             NewGlobalOldest(globalOldestRelease, validDirectories[1]), order)

findOldestDirectory(sections, order) ==
    FindOldestFrom(sections, 1, NoRelease, order)

getOldestIncomingRelease(sections, order) == findOldestDirectory(sections, order)

getOldestArchiveRelease(sections, order) == findOldestDirectory(sections, order)

\* isDirectoryEmpty: readdir(dirPath).length === 0; a failing readdir gives false
isDirectoryEmpty(dirPath) == fs[dirPath].n = 0

(* ------------------- the scan on drawn inputs -------------------------- *)

ScanPaths == {"/site/s1", "/site/s2"}

ScanSection(p, lbl, d) == [path |-> p, device |-> "/dev/s", section |-> lbl, dated |-> d]

ScanSections(d1, d2) == <<ScanSection("/site/s1", "A", d1), ScanSection("/site/s2", "B", d2)>>

ScanConfig(tier, d1, d2) ==
    [incomingDisksSections |-> IF tier = "incoming" THEN ScanSections(d1, d2) ELSE <<>>,
     archiveDisksSections |-> IF tier = "archive" THEN ScanSections(d1, d2) ELSE <<>>,
     freeSpaceLimitGBRace |-> 2, freeSpaceLimitGBArchive |-> 2, archiveBufferGB |-> 1,
     debug |-> FALSE]

NowStart == 2 * OneDayInMs + 500

ScanDirs ==
    {NoDir} \cup {[n |-> 1, mtime |-> NowStart - age, size |-> 1024] :
                    age \in (OneDayInMs - MaxAgeSkew)..(OneDayInMs + MaxAgeSkew)}

InitScan ==
    /\ \E tier \in {"incoming", "archive"}, d1 \in BOOLEAN, d2 \in BOOLEAN :
          config = ScanConfig(tier, d1, d2)
    /\ fs \in [ScanPaths \X Names -> ScanDirs]
    /\ now = NowStart
    /\ last = [op |-> "none"]
    /\ main = NotStarted

\* getOldestIncomingRelease(config.incomingDisksSections)
ScanIncoming ==
    /\ config.incomingDisksSections # <<>>
    /\ \E order \in ReaddirOrders :
          last' = [op |-> "scan", sections |-> config.incomingDisksSections, order |-> order,
                   result |-> getOldestIncomingRelease(config.incomingDisksSections, order)]
    /\ UNCHANGED <<config, fs, now, main>>

\* getOldestArchiveRelease(sections) on the sections of one device
ScanArchive ==
    /\ config.archiveDisksSections # <<>>
    /\ \E order \in ReaddirOrders :
          last' = [op |-> "scan", sections |-> config.archiveDisksSections, order |-> order,
                   result |-> getOldestArchiveRelease(config.archiveDisksSections, order)]
    /\ UNCHANGED <<config, fs, now, main>>

NextScan == ScanIncoming \/ ScanArchive

SpecScan == InitScan /\ [][NextScan]_vars

(* ------------- the scan on a filesystem that fails in places ------------ *)

\* a section directory that can be listed
SectionDir == [n |-> 1, mtime |-> 0, size |-> 0]

\* the modification time of the directory called nm: older than a day
FaultMtime(nm) == NowStart - OneDayInMs - 1000 * Len(nm)

\* what may be wrong with a directory
FaultKinds == {"absent", "sound", "file", "stat"}

\* a directory of two files of 512 bytes: sound, with a file that cannot be
\* examined ("file"), or one that cannot be examined itself ("stat")
FaultDir(nm, kind) ==
    IF kind = "absent" THEN NoDir
    ELSE [n |-> 2, mtime |-> FaultMtime(nm), size |-> 1024, stat |-> kind # "stat",
          files |-> <<[size |-> 512, readable |-> TRUE],
                      [size |-> 512, readable |-> kind # "file"]>>]

InitScanFaults ==
    /\ \E tier \in {"incoming", "archive"} : config = ScanConfig(tier, FALSE, FALSE)
    /\ \E listed \in [ScanPaths -> BOOLEAN], kinds \in [ScanPaths \X Names -> FaultKinds] :
          fs = [p \in ScanPaths \X (Names \cup {<<>>}) |->
                   IF p[2] = <<>> THEN (IF listed[p[1]] THEN SectionDir ELSE NoDir)
                   ELSE FaultDir(p[2], kinds[p])]
    /\ now = NowStart
    /\ last = [op |-> "none"]
    /\ main = NotStarted

SpecScanFaults == InitScanFaults /\ [][NextScan]_vars

(* ------------------------- the daemon's world ------------------------ *)

\* getFreeSpace rejected (df failed, or its output had fewer than two lines)
ProbeFailed == 0 - 1

\* what getFreeSpace yields for a device: whole gigabytes, or a rejection
Readings == (0..MaxFree) \cup {ProbeFailed}

NoSection == [path |-> "", device |-> "", section |-> "", dated |-> FALSE]

IncomingSections ==
    <<[path |-> "/site/inA", device |-> "/dev/i1", section |-> "A", dated |-> FALSE],
      [path |-> "/site/inB", device |-> "/dev/i2", section |-> "B", dated |-> FALSE]>>

ArchiveSections ==
    <<[path |-> "/arch/d1", device |-> "/dev/a1", section |-> "A", dated |-> FALSE],
      [path |-> "/arch/d2", device |-> "/dev/a2", section |-> "C", dated |-> FALSE]>>

DaemonConfig(dbg) ==
    [incomingDisksSections |-> IncomingSections,
     archiveDisksSections |-> ArchiveSections,
     freeSpaceLimitGBRace |-> 1, freeSpaceLimitGBArchive |-> 2, archiveBufferGB |-> 1,
     copyOptions |-> "", debug |-> dbg]

SeqRange(q) == {q[i] : i \in 1..Len(q)}

ArchiveDevices == {sec.device : sec \in SeqRange(config.archiveDisksSections)}

DaemonPaths == {sec.path : sec \in SeqRange(IncomingSections) \cup SeqRange(ArchiveSections)}

\* the release names of the daemon's world
DaemonNames == {<<"x">>}

\* the directories uploaded to an incoming section: empty ones, and ones of
\* 1 KB and 2 KB, of two ages
UploadedDirs ==
    {[n |-> 0, mtime |-> NowStart - 2750, size |-> 0],
     [n |-> 2, mtime |-> NowStart - 2750, size |-> 1024],
     [n |-> 2, mtime |-> NowStart - 1250, size |-> 1024],
     [n |-> 1, mtime |-> NowStart - 1250, size |-> 2048]}

\* a directory archived earlier
ArchivedDirs == {[n |-> 1, mtime |-> NowStart - 9000, size |-> 1024]}

IsIncomingPath(p) == \E sec \in SeqRange(config.incomingDisksSections) : sec.path = p[1]

AppearingDirs(p) == IF IsIncomingPath(p) THEN UploadedDirs ELSE ArchivedDirs

Init ==
    /\ \E dbg \in BOOLEAN : config = DaemonConfig(dbg)
    /\ fs = [p \in DaemonPaths \X DaemonNames |-> NoDir]
    /\ now = NowStart
    /\ last = [op |-> "none"]
    /\ main = NotStarted

\* a directory appears under a section (an upload, or content archived earlier)
Appear ==
    /\ last.op = "none"
    /\ Cardinality({p \in DOMAIN fs : Exists(fs[p])}) < MaxReleases
    /\ \E p \in DOMAIN fs :
          /\ ~Exists(fs[p])
          /\ \E d \in AppearingDirs(p) : fs' = [fs EXCEPT ![p] = d]
    /\ UNCHANGED <<config, now, last, main>>

\* main takes the value a call returned (actionTaken) and goes on
ResultConsumed ==
    /\ last.op # "none"
    /\ last' = [op |-> "none"]
    /\ UNCHANGED <<config, fs, now, main>>

(* ------------------------------ rclone.js ------------------------------ *)

\* what the external tools do in one call of manageArchive: at most one of them
\* fails, and a copy that does not fail leaves a full, a partial or no destination
Faults == {"none", "wipeDestination", "rcloneSync", "setTimestamp", "wipeSource"}

Copies == {"full", "partial", "none"}

\* with copy options that filter (here a depth limit), rclone may also leave
\* every top-level entry in place and skip files below them
FilteredCopies == Copies \cup {"shallow"}

CopiesUnder(copyOptions) == IF copyOptions = "" THEN Copies ELSE FilteredCopies

\* a fault after the copy is only reached when the copy was verified
PlaceInputs ==
    {io \in [fault : Faults, copy : CopiesUnder(config.copyOptions)] :
        /\ io.fault = "wipeDestination" => io.copy = "full"
        /\ io.fault \in {"setTimestamp", "wipeSource"} => io.copy \in {"full", "shallow"}}

\* rclone copy "src/" "dst": the destination directory it leaves behind. A
\* shallow copy has every top-level entry of the source and misses files
\* below them; a partial one misses a top-level entry.
rcloneSync(src, copy) ==
    IF copy = "none" THEN NoDir
    ELSE IF copy = "partial" /\ src.n > 0
         THEN [n |-> src.n - 1, mtime |-> now, size |-> 0]
         ELSE IF copy = "shallow" /\ src.n > 0
              THEN [n |-> src.n, mtime |-> now, size |-> src.size \div 2]
              ELSE [n |-> src.n, mtime |-> now, size |-> src.size]

\* a mutant of verifyFileCount: the counts are not compared
verifyFileCountAlways(source, destination) == TRUE

\* a comparison of everything below the two directories (not what the code does)
verifyFileCountDeep(source, destination) ==
    /\ Exists(source) /\ Exists(destination)
    /\ source.n = destination.n /\ source.size = destination.size

\* verifyFileCount: both readdir succeed and the lengths are equal
verifyFileCount(source, destination) ==
    Exists(source) /\ Exists(destination) /\ source.n = destination.n

\* a mutant of the timestamp: milliseconds handed to touch as they are
TimestampNotFloored(mtimeMs) == mtimeMs

\* Math.floor(sourceStats.mtimeMs / 1000) as touch -d "@secs" sets it, in ms
Timestamp(mtimeMs) == (mtimeMs \div 1000) * 1000

(* ------------------------------ archive.js ----------------------------- *)

Event(op, path, arg) == [op |-> op, path |-> path, arg |-> arg]

\* config.incomingDisksSections.find(s => release.path === `${s.path}/${release.name}`)
IncomingSectionOf(incomingRelease) ==
    LET secs == config.incomingDisksSections
        hits == {i \in 1..Len(secs) : incomingRelease.path = <<secs[i].path, incomingRelease.name>>}
    IN IF hits = {} THEN NoSection
       ELSE secs[CHOOSE i \in hits : \A j \in hits : i <= j]

\* the first archive section whatever its label (not what the code does)
ArchiveSectionAny(releaseSection) ==
    IF config.archiveDisksSections = <<>> THEN NoSection ELSE config.archiveDisksSections[1]

\* config.archiveDisksSections.find(archive => archive.section === releaseSection)
ArchiveSectionFor(releaseSection) ==
    LET secs == config.archiveDisksSections
        hits == {i \in 1..Len(secs) : secs[i].section = releaseSection}
    IN IF hits = {} THEN NoSection
       ELSE secs[CHOOSE i \in hits : \A j \in hits : i <= j]

\* a mutant of the comparison in the loop: a later section wins a tie
BetterFreeSpaceOrEqual(freeSpace, mostFreeSpace) == freeSpace >= mostFreeSpace

\* if (freeSpace > mostFreeSpace)
BetterFreeSpace(freeSpace, mostFreeSpace) == freeSpace > mostFreeSpace

\* the loop over config.archiveDisksSections that finds bestSection, from i on
RECURSIVE FindBestFrom(_, _, _, _)
FindBestFrom(i, bestSection, mostFreeSpace, probe) ==
    IF i > Len(config.archiveDisksSections)
    THEN [bestSection |-> bestSection, mostFreeSpace |-> mostFreeSpace]
    ELSE LET archiveSection == config.archiveDisksSections[i]
             freeSpace == probe[archiveSection.device]
         IN IF freeSpace # ProbeFailed /\ BetterFreeSpace(freeSpace, mostFreeSpace)
            THEN FindBestFrom(i + 1, archiveSection, freeSpace, probe)
            ELSE FindBestFrom(i + 1, bestSection, mostFreeSpace, probe)

\* a mutant of the capacity test: the buffer is left out
NotEnoughRoomNoBuffer(mostFreeSpace, size) ==
    mostFreeSpace * ArchiveSizeDivisor < size

\* mostFreeSpace < incomingRelease.size / 1024 + config.archiveBufferGB
NotEnoughRoom(mostFreeSpace, size) ==
    (mostFreeSpace - config.archiveBufferGB) * ArchiveSizeDivisor < size

PlaceResult(ret, f, ops, best) ==
    [ret |-> ret, fs |-> f, ops |-> ops, bestSection |-> best.bestSection.path,
     mostFreeSpace |-> best.mostFreeSpace]

\* the try block of manageArchive with debug off
Transfer(f, incomingSection, incomingRelease, best, io) ==
    LET src == <<incomingSection.path, incomingRelease.name>>
        dst == <<best.bestSection.path, incomingRelease.name>>
        wiped == [f EXCEPT ![dst] = NoDir]
        opsW == <<Event("wipeDestination", dst, 0)>>
        copied == IF Exists(f[src]) THEN [wiped EXCEPT ![dst] = rcloneSync(f[src], io.copy)]
                  ELSE wiped
        opsC == Append(opsW, Event("rcloneSync", dst, 0))
        secs == Timestamp(copied[src].mtime)
        stamped == [copied EXCEPT ![dst].mtime = secs]
        opsT == Append(opsC, Event("setTimestamp", dst, secs))
        removed == [stamped EXCEPT ![src] = NoDir]
        opsR == Append(opsT, Event("wipeDestination", src, 0))
    IN IF io.fault = "wipeDestination" THEN PlaceResult(FALSE, f, <<>>, best)
       ELSE IF io.fault = "rcloneSync" \/ ~Exists(f[src])
            THEN PlaceResult(FALSE, copied, opsC, best)
       ELSE IF ~verifyFileCount(copied[src], copied[dst])
            THEN PlaceResult(FALSE, copied, opsC, best)
       ELSE IF io.fault = "setTimestamp" THEN PlaceResult(FALSE, copied, opsC, best)
       ELSE IF io.fault = "wipeSource" THEN PlaceResult(FALSE, stamped, opsT, best)
       ELSE PlaceResult(TRUE, removed, opsR, best)

\* manageArchive(config, incomingRelease) with a release: on the filesystem f,
\* with the readings probe of the archive devices and the tools' outcomes io
manageArchive(f, incomingRelease, probe, io) ==
    LET incomingSection == IncomingSectionOf(incomingRelease)
        releaseSection == incomingSection.section
        matching == SelectSeq(config.archiveDisksSections,
                              LAMBDA sec : sec.section = releaseSection)
        best == FindBestFrom(1, NoSection, 0, probe)
        none == [bestSection |-> NoSection, mostFreeSpace |-> 0]
    IN IF incomingSection = NoSection THEN PlaceResult(FALSE, f, <<>>, none)
       ELSE IF matching = <<>> THEN PlaceResult(FALSE, f, <<>>, none)
       ELSE IF best.bestSection = NoSection THEN PlaceResult(FALSE, f, <<>>, best)
       ELSE IF NotEnoughRoom(best.mostFreeSpace, incomingRelease.size)
            THEN PlaceResult(FALSE, f, <<>>, best)
       ELSE IF config.debug THEN PlaceResult(TRUE, f, <<>>, best)
       ELSE Transfer(f, incomingSection, incomingRelease, best, io)

(* ------------------------------ incoming.js ---------------------------- *)

DeleteOutcomes == {"ok", "fails"}

\* deleteDirectory(dirPath) can run to its end: the directory is there and no
\* readdir, unlink or rmdir of it fails
deleteDirectorySucceeds(f, dirPath, del) == Exists(f[dirPath]) /\ del = "ok"

\* Math.round(size / (1024 ** 2))
SizeMB(size) == (2 * size + BytesPerMB) \div (2 * BytesPerMB)

\* a mutant of proc_announce: the line is appended in debug mode too
proc_announceAlways(log, line) == Append(log, line)

\* proc_announce: the line is appended unless config.debug
proc_announce(log, line) == IF config.debug THEN log ELSE Append(log, line)

\* a mutant of the threshold test: equal to the limit counts as too little
SufficientFreeSpaceStrict(freeSpace) == freeSpace > config.freeSpaceLimitGBRace

\* freeSpace >= config.freeSpaceLimitGBRace
SufficientFreeSpace(freeSpace) == freeSpace >= config.freeSpaceLimitGBRace

\* archiveFreeSpace < size / 1024 / 1024 + config.archiveBufferGB
PreCheckFails(archiveFreeSpace, size) ==
    (archiveFreeSpace - config.archiveBufferGB) * IncomingSizeDivisor < size

\* no reading taken
Unread == 0 - 2

NotProbed == [d \in ArchiveDevices |-> Unread]

\* what one call of manageIncoming did, as it starts
CallRecord(incomingSection, freeSpace) ==
    [op |-> "manageIncoming", section |-> incomingSection.path, ret |-> "false",
     device |-> incomingSection.device, probed |-> <<incomingSection.device>>,
     freeSpace |-> freeSpace, release |-> NoRelease, empty |-> FALSE, recheck |-> "none",
     archiveFreeSpace |-> Unread, archFree |-> NotProbed, placed |-> "none", bestSection |-> "", ops |-> <<>>,
     announce |-> <<>>, pre |-> fs]

\* the call ends: ret is "true", "false", or "throw" when it rejects
Return(call, ret, f) ==
    /\ fs' = f
    /\ last' = [call EXCEPT !.ret = ret]
    /\ UNCHANGED <<config, now>>

\* the re-read on the device of the release's own section (not what the code does)
RecheckDeviceOfRelease(call) ==
    LET sec == IncomingSectionOf(call.release)
    IN IF sec = NoSection THEN call.device ELSE sec.device

\* the device of "freeSpace = await getFreeSpace(device)" after a mutation:
\* the one destructured from the section manageIncoming was called with
RecheckDevice(call) == call.device

\* getFreeSpace(device) is called once more by manageIncoming
Probing(call, device) == [call EXCEPT !.probed = Append(@, device)]

\* freeSpace = await getFreeSpace(device) after a mutation, inside the try
\* block, followed by the early "return true" and the final "return true"
RecheckAndReturn(call, f) ==
    LET c == Probing(call, RecheckDevice(call)) IN
    \E freeSpace \in Readings :
        IF freeSpace = ProbeFailed THEN Return([c EXCEPT !.recheck = "failed"], "false", f)
        ELSE IF SufficientFreeSpace(freeSpace)
             THEN Return([c EXCEPT !.recheck = "reached"], "true", f)
             ELSE Return([c EXCEPT !.recheck = "below"], "true", f)

\* lines 85-184 of manageIncoming: the release is migrated or deleted
MigrateOrDelete(call, f, freeSpace) ==
    LET rel == call.release
        sizeMB == SizeMB(rel.size)
        archiveSection == ArchiveSectionFor(rel.section)
    IN IF archiveSection # NoSection
       THEN \E archiveFreeSpace \in Readings :
              LET c1 == [Probing(call, archiveSection.device)
                            EXCEPT !.archiveFreeSpace = archiveFreeSpace] IN
              IF archiveFreeSpace = ProbeFailed THEN Return(c1, "throw", f)
              ELSE IF PreCheckFails(archiveFreeSpace, rel.size) THEN Return(c1, "false", f)
              ELSE LET line == <<"TSM", rel.name, sizeMB, freeSpace, archiveSection.path,
                                 archiveFreeSpace, rel.section>>
                       c2 == [c1 EXCEPT !.announce = proc_announce(@, line)]
                   IN IF config.debug THEN Return(c2, "true", f)
                      ELSE \E probe \in [ArchiveDevices -> Readings], io \in PlaceInputs :
                             LET pl == manageArchive(f, rel, probe, io)
                                 c3 == [c2 EXCEPT !.archFree = probe,
                                                  !.placed = IF pl.ret THEN "true" ELSE "false",
                                                  !.bestSection = pl.bestSection,
                                                  !.ops = @ \o pl.ops]
                             IN RecheckAndReturn(c3, pl.fs)
       ELSE LET line == <<"TSD", rel.name, sizeMB, freeSpace, rel.section, freeSpace,
                          rel.section>>
                c2 == [call EXCEPT !.announce = proc_announce(@, line)]
            IN IF config.debug THEN Return(c2, "true", f)
               ELSE \E del \in DeleteOutcomes :
                      IF ~deleteDirectorySucceeds(f, rel.path, del) THEN Return(c2, "false", f)
                      ELSE RecheckAndReturn(
                               [c2 EXCEPT !.ops = Append(@, Event("deleteDirectory", rel.path, 0))],
                               [f EXCEPT ![rel.path] = NoDir])

\* a mutant: the release is chosen again on the filesystem f after the deletion
ReleaseRescanned(call, f) ==
    LET left == {q \in DOMAIN f : IsIncomingPath(q) /\ Exists(f[q])}
        q == CHOOSE q \in left : TRUE
    IN IF left = {} THEN call.release
       ELSE [path |-> q, name |-> q[2], mtime |-> f[q].mtime, size |-> f[q].size,
             section |-> IncomingSectionOf([path |-> q, name |-> q[2]]).section]

\* the release the call goes on with after it deleted the empty directory:
\* "const oldestRelease" of line 34 is not assigned again
ReleaseAfterDeletion(call, f) == call.release

\* lines 44-78 of manageIncoming: an empty release directory is deleted
DeleteEmpty(call) ==
    LET rel == call.release IN
    \E del \in DeleteOutcomes :
        IF ~deleteDirectorySucceeds(fs, rel.path, del) THEN Return(call, "false", fs)
        ELSE LET f1 == [fs EXCEPT ![rel.path] = NoDir]
                 c1 == [Probing(call, RecheckDevice(call))
                           EXCEPT !.ops = Append(@, Event("deleteDirectory", rel.path, 0))]
             IN \E freeSpace \in Readings :
                  IF freeSpace = ProbeFailed
                  THEN Return([c1 EXCEPT !.recheck = "failed"], "false", f1)
                  ELSE IF SufficientFreeSpace(freeSpace)
                       THEN Return([c1 EXCEPT !.recheck = "reached"], "true", f1)
                       ELSE MigrateOrDelete([c1 EXCEPT !.recheck = "below",
                                                       !.release = ReleaseAfterDeletion(c1, f1)],
                                            f1, freeSpace)

\* manageIncoming(config, incomingSection)
manageIncoming(incomingSection) ==
    \E freeSpace \in Readings :
        LET call == CallRecord(incomingSection, freeSpace) IN
        IF freeSpace = ProbeFailed THEN Return(call, "throw", fs)
        ELSE IF SufficientFreeSpace(freeSpace) THEN Return(call, "false", fs)
        ELSE \E oldestRelease \in {getOldestIncomingRelease(config.incomingDisksSections, order) :
                                      order \in ReaddirOrders} :
               IF oldestRelease = NoRelease THEN Return(call, "false", fs)
               ELSE LET c1 == [call EXCEPT !.release = oldestRelease,
                                           !.empty = isDirectoryEmpty(oldestRelease.path)]
                    IN IF c1.empty /\ ~config.debug
                       THEN DeleteEmpty(c1)
                       ELSE MigrateOrDelete(c1, fs, freeSpace)

ManageIncoming ==
    /\ last.op = "none"
    /\ \E i \in 1..Len(config.incomingDisksSections) :
          manageIncoming(config.incomingDisksSections[i])
    /\ UNCHANGED main

Next == Appear \/ ManageIncoming \/ ResultConsumed

Spec == Init /\ [][Next]_vars

(* -------- the daemon with copy options that limit the depth of a copy ---- *)

DepthLimit == "--max-depth 2"

\* the largest of the uploads with the latest modification time
LateUploads ==
    {d \in UploadedDirs : \A e \in UploadedDirs : e.mtime <= d.mtime /\ (e.mtime = d.mtime => e.size <= d.size)}

\* the archive is empty, the first incoming section holds any upload or none,
\* the second the late one or none
InitVerify ==
    /\ config = [DaemonConfig(FALSE) EXCEPT !.copyOptions = DepthLimit]
    /\ \E d1 \in UploadedDirs \cup {NoDir}, d2 \in LateUploads \cup {NoDir} :
          fs = [p \in DaemonPaths \X DaemonNames |->
                   IF p[1] = IncomingSections[1].path THEN d1
                   ELSE IF p[1] = IncomingSections[2].path THEN d2
                   ELSE NoDir]
    /\ now = NowStart
    /\ last = [op |-> "none"]
    /\ main = NotStarted

NextVerify == ManageIncoming \/ ResultConsumed

SpecVerify == InitVerify /\ [][NextVerify]_vars

(* -------------------- archive.js: reclaiming space --------------------- *)

\* parseInt found no digits: a reading that is neither below nor at or above
\* any limit
NaN == 0 - 3

\* what getFreeSpace settles with: whole gigabytes, NaN, or a rejection
ProbeReadings == Readings \cup {NaN}

\* a mutant of the loop test: a reading equal to the limit keeps the loop going
BelowOrEqual(freeSpace, limit) == freeSpace # NaN /\ freeSpace <= limit

\* freeSpace < limit, on numbers (false when freeSpace is NaN)
Below(freeSpace, limit) == freeSpace # NaN /\ freeSpace < limit

\* freeSpace >= limit, on numbers (false when freeSpace is NaN)
AtLeast(freeSpace, limit) == freeSpace # NaN /\ freeSpace >= limit

\* the keys of disks: the devices of the archive sections, by first appearance
RECURSIVE DevicesFrom(_, _)
DevicesFrom(i, acc) ==
    IF i > Len(config.archiveDisksSections) THEN acc
    ELSE LET device == config.archiveDisksSections[i].device IN
         DevicesFrom(i + 1, IF device \in SeqRange(acc) THEN acc ELSE Append(acc, device))

\* the sections of config.archiveDisksSections that lie on device
SectionsOn(device) ==
    SelectSeq(config.archiveDisksSections, LAMBDA sec : sec.device = device)

\* Object.entries(disks): each device with its sections
Disks ==
    LET devices == DevicesFrom(1, <<>>) IN
    [k \in 1..Len(devices) |-> [device |-> devices[k], sections |-> SectionsOn(devices[k])]]

\* manageArchive(config, null) as it starts: manageArchiveDiskSpace before its
\* first device
ReclaimCall ==
    [op |-> "reclaim", pc |-> "disk", d |-> 1, freeSpace |-> Unread,
     cleanupPerformed |-> FALSE, ret |-> "none", iteration |-> 0, ops |-> <<>>,
     announce |-> <<>>, visited |-> <<>>, pre |-> fs]

\* the for loop goes on to the next device (freeSpace is local to the loop's
\* body); why the current one was left
NextDisk(call, why) ==
    [call EXCEPT !.pc = "disk", !.d = @ + 1, !.freeSpace = Unread, !.iteration = 0,
                 !.visited = Append(@, [device |-> Disks[call.d].device, left |-> why])]

\* let freeSpace = await getFreeSpace(device), and the test that skips the device
ReclaimProbe ==
    /\ last.op = "reclaim"
    /\ last.pc = "disk"
    /\ last.d <= Len(Disks)
    /\ \E freeSpace \in ProbeReadings :
          LET call == [last EXCEPT !.freeSpace = freeSpace] IN
          last' = IF freeSpace = ProbeFailed
                  THEN [call EXCEPT !.pc = "threw", !.ret = "throw"]
                  ELSE IF AtLeast(freeSpace, config.freeSpaceLimitGBArchive)
                       THEN NextDisk(call, "sufficient")
                       ELSE [call EXCEPT !.pc = "loop"]
    /\ UNCHANGED <<config, fs, now, main>>

\* the body of the while loop after the oldest release was found
ReclaimRelease(oldestRelease) ==
    LET line == <<"TDELA", oldestRelease.name, SizeMB(oldestRelease.size), oldestRelease.section>>
        c1 == [last EXCEPT !.announce = proc_announce(@, line), !.iteration = (@ + 1) % 2]
        c2 == [c1 EXCEPT !.ops = Append(@, Event("deleteDirectory", oldestRelease.path, 0))]
    IN IF config.debug THEN last' = c1 /\ fs' = fs
       ELSE \E del \in DeleteOutcomes :
              IF ~deleteDirectorySucceeds(fs, oldestRelease.path, del)
              THEN last' = NextDisk(c1, "failed") /\ fs' = fs
              ELSE /\ fs' = [fs EXCEPT ![oldestRelease.path] = NoDir]
                   /\ \E freeSpace \in ProbeReadings :
                         last' = IF freeSpace = ProbeFailed
                                 THEN NextDisk(c2, "failed")
                                 ELSE [c2 EXCEPT !.freeSpace = freeSpace,
                                                 !.cleanupPerformed = TRUE]

\* one pass of while (freeSpace < config.freeSpaceLimitGBArchive)
ReclaimIterate ==
    /\ last.op = "reclaim"
    /\ last.pc = "loop"
    /\ IF ~Below(last.freeSpace, config.freeSpaceLimitGBArchive)
       THEN last' = NextDisk(last, IF last.freeSpace = NaN THEN "nan" ELSE "reached") /\ fs' = fs
       ELSE \E oldestRelease \in {getOldestArchiveRelease(Disks[last.d].sections, order) :
                                     order \in ReaddirOrders} :
              IF oldestRelease = NoRelease
              THEN last' = NextDisk(last, "exhausted") /\ fs' = fs
              ELSE ReclaimRelease(oldestRelease)
    /\ UNCHANGED <<config, now, main>>

\* manageArchiveDiskSpace returns cleanupPerformed, manageArchiveSpace hands it
\* on, and manageArchive returns false
ReclaimReturn ==
    /\ last.op = "reclaim"
    /\ last.pc = "disk"
    /\ last.d > Len(Disks)
    /\ last' = [last EXCEPT !.pc = "returned", !.ret = "false"]
    /\ UNCHANGED <<config, fs, now, main>>

(* ------------------- reclaiming space on drawn inputs ------------------ *)

\* two sections on one device, one of them dated, and a second device between
ReclaimSections ==
    <<[path |-> "/arch/r1", device |-> "/dev/a1", section |-> "A", dated |-> FALSE],
      [path |-> "/arch/r2", device |-> "/dev/a2", section |-> "B", dated |-> FALSE],
      [path |-> "/arch/r3", device |-> "/dev/a1", section |-> "C", dated |-> TRUE]>>

ReclaimConfig(dbg) ==
    [incomingDisksSections |-> <<>>,
     archiveDisksSections |-> ReclaimSections,
     freeSpaceLimitGBRace |-> 1, freeSpaceLimitGBArchive |-> 2, archiveBufferGB |-> 1,
     debug |-> dbg]

ReclaimPaths == {sec.path : sec \in SeqRange(ReclaimSections)}

\* archived releases: two older than a day, one younger
ReclaimDirs ==
    {NoDir,
     [n |-> 1, mtime |-> NowStart - OneDayInMs - 2000, size |-> 3 * BytesPerMB],
     [n |-> 1, mtime |-> NowStart - OneDayInMs - 1000, size |-> 1024],
     [n |-> 1, mtime |-> NowStart - 1000, size |-> 1024]}

InitReclaim ==
    /\ \E dbg \in BOOLEAN : config = ReclaimConfig(dbg)
    /\ fs \in [ReclaimPaths \X DaemonNames -> ReclaimDirs]
    /\ now = NowStart
    /\ last = ReclaimCall
    /\ main = NotStarted

NextReclaim == ReclaimProbe \/ ReclaimIterate \/ ReclaimReturn

SpecReclaim == InitReclaim /\ [][NextReclaim]_vars

\* every awaited promise settles and the loop's next statement runs
SpecReclaimFair == SpecReclaim /\ WF_vars(NextReclaim)

(* ------------------------ disk.js: getFreeSpace ------------------------ *)

\* the characters of a column of df's output
ProbeChars == {"1", "2", "G", "M", "-"}

DigitValue(c) == IF c = "1" THEN 1 ELSE IF c = "2" THEN 2 ELSE 0

IsDigit(c) == c \in Digits

\* the columns df may print: up to MaxFieldLen characters
Fields == UNION {[1..n -> ProbeChars] : n \in 1..MaxFieldLen}

\* str.replace('G', ''): the first G is removed
replace(str) ==
    LET hits == {i \in 1..Len(str) : str[i] = "G"} IN
    IF hits = {} THEN str
    ELSE LET k == CHOOSE i \in hits : \A j \in hits : i <= j
         IN SubSeq(str, 1, k - 1) \o SubSeq(str, k + 1, Len(str))

\* the value of the digits of str from position i on, up to the first
\* character that is not a digit; acc is the value so far
RECURSIVE ParseDigits(_, _, _)
ParseDigits(str, i, acc) ==
    IF i > Len(str) \/ ~IsDigit(str[i]) THEN acc
    ELSE ParseDigits(str, i + 1, 10 * acc + DigitValue(str[i]))

\* parseInt(str, 10): an optional sign, then digits; NaN when no digit follows
parseInt(str) ==
    LET signed == str # <<>> /\ str[1] \in {"-", "+"}
        start == IF signed THEN 2 ELSE 1
        magnitude == ParseDigits(str, start, 0)
    IN IF start > Len(str) \/ ~IsDigit(str[start])
       THEN [nan |-> TRUE, value |-> 0]
       ELSE [nan |-> FALSE,
             value |-> IF signed /\ str[1] = "-" THEN 0 - magnitude ELSE magnitude]

Rejected == [settled |-> "rejected", nan |-> FALSE, value |-> 0]

Resolved(number) == [settled |-> "resolved", nan |-> number.nan, value |-> number.value]

\* getFreeSpace(device) on what exec handed to the callback: failed is
\* err || stderr, stdout the trimmed output as lines of columns
getFreeSpace(failed, stdout) ==
    IF failed THEN Rejected
    ELSE LET lines == stdout IN
         IF Len(lines) < 2 THEN Rejected
         ELSE LET fields == lines[2] IN
              IF Len(fields) < 4 THEN Rejected
              ELSE Resolved(parseInt(replace(fields[4])))

(* ---------------------- getFreeSpace on drawn inputs ------------------- *)

\* the header line of df -BG
DfHeader == <<<<"F">>, <<"1", "G">>, <<"U">>, <<"A">>, <<"U">>, <<"M">>>>

\* the device's line with `columns` columns, the fourth being avail
DfLine(columns, avail) ==
    [k \in 1..columns |-> IF k = 4 THEN avail ELSE <<"1", "G">>]

\* the trimmed output split at the newlines
DfOutput(nlines, columns, avail) ==
    IF nlines = 1 THEN <<DfHeader>>
    ELSE IF nlines = 2 THEN <<DfHeader, DfLine(columns, avail)>>
    ELSE <<DfHeader, DfLine(columns, avail), DfLine(columns, avail)>>

InitProbe ==
    /\ config = DaemonConfig(FALSE)
    /\ fs = <<>>
    /\ now = NowStart
    /\ main = NotStarted
    /\ \E failed \in BOOLEAN, nlines \in 1..3, columns \in {3, 4, 6}, avail \in Fields :
          last = [op |-> "exec", failed |-> failed,
                  stdout |-> DfOutput(nlines, columns, avail)]

\* the callback of exec runs and the promise settles
GetFreeSpace ==
    /\ last.op = "exec"
    /\ last' = [op |-> "getFreeSpace", failed |-> last.failed, stdout |-> last.stdout,
                result |-> getFreeSpace(last.failed, last.stdout)]
    /\ UNCHANGED <<config, fs, now, main>>

NextProbe == GetFreeSpace

SpecProbe == InitProbe /\ [][NextProbe]_vars

(* --------------------------- main: the rounds -------------------------- *)

\* the configuration with waitTimeMinutes; 0 stands for a value that is unset
RoundConfig(dbg, waitTimeMinutes) ==
    DaemonConfig(dbg) @@ [waitTimeMinutes |-> waitTimeMinutes]

\* the wait of the catch block
ErrorWaitTime == 5

\* a mutant of the wait: the configured interval is ignored
WaitTimeFixed == ErrorWaitTime

\* config.waitTimeMinutes || 5
WaitTime == IF config.waitTimeMinutes = 0 THEN 5 ELSE config.waitTimeMinutes

\* the directories that are there when the process starts
RoundFilesystems ==
    {f \in [DaemonPaths \X DaemonNames -> UploadedDirs \cup ArchivedDirs \cup {NoDir}] :
        \A p \in DaemonPaths \X DaemonNames :
            f[p] \in (IF p[1] = "/site/inA"
                      THEN {[n |-> 0, mtime |-> NowStart - 2750, size |-> 0],
                            [n |-> 2, mtime |-> NowStart - 2750, size |-> 1024]}
                      ELSE IF p[1] = "/site/inB"
                      THEN {[n |-> 2, mtime |-> NowStart - 1250, size |-> 1024]}
                      ELSE IF p[1] = "/arch/d1" THEN ArchivedDirs
                      ELSE {NoDir})}

\* the process before config.js has read config.json
Loading ==
    [pc |-> "load", i |-> 1, j |-> 1, spaceFreed |-> FALSE, visits |-> <<>>,
     failed |-> FALSE, wait |-> 0, round |-> 0]

\* the top of the try block: a round begins with the first incoming section
\* (wait keeps the minutes waited before it)
StartRound(m) ==
    [m EXCEPT !.pc = "incoming", !.i = 1, !.j = 1, !.spaceFreed = FALSE,
              !.visits = <<>>, !.failed = FALSE, !.round = @ + 1]

\* a mutant of the catch block: the exception leaves main and the process exits
Rethrown(m) == [m EXCEPT !.pc = "exited", !.failed = TRUE]

\* the catch block: the error is logged and the timer set to 5 minutes
Caught(m) == [m EXCEPT !.pc = "sleep", !.failed = TRUE, !.wait = ErrorWaitTime]

\* the loop reaches a section
Visit(m, section) == [m EXCEPT !.visits = Append(@, section.path)]

InitRound ==
    /\ \E dbg \in BOOLEAN, waitTimeMinutes \in {0, 10} :
          config = RoundConfig(dbg, waitTimeMinutes)
    /\ fs \in RoundFilesystems
    /\ now = NowStart
    /\ last = [op |-> "none"]
    /\ main = Loading

\* config.js: config.json is read and parsed, or the process exits with 1
LoadConfig ==
    /\ main.pc = "load"
    /\ \E readable \in BOOLEAN :
          main' = IF readable THEN StartRound(main) ELSE [main EXCEPT !.pc = "exited"]
    /\ UNCHANGED <<config, fs, now, last>>

\* manageIncoming(config, incomingSection) is called and runs
RoundIncoming ==
    /\ main.pc = "incoming"
    /\ main.round <= MaxRounds
    /\ main.i <= Len(config.incomingDisksSections)
    /\ manageIncoming(config.incomingDisksSections[main.i])
    /\ main' = [Visit(main, config.incomingDisksSections[main.i]) EXCEPT !.pc = "manage"]

\* const actionTaken = await manageIncoming(...): the value, or the exception
RoundManaged ==
    /\ main.pc = "manage"
    /\ main' = IF last.ret = "throw" THEN Caught(main)
               ELSE [main EXCEPT !.pc = "incoming", !.i = @ + 1,
                                 !.spaceFreed = @ \/ last.ret = "true"]
    /\ last' = [op |-> "none"]
    /\ UNCHANGED <<config, fs, now>>

\* the first for loop is over
IncomingDone ==
    /\ main.pc = "incoming"
    /\ main.i > Len(config.incomingDisksSections)
    /\ main' = [main EXCEPT !.pc = "archive"]
    /\ UNCHANGED <<config, fs, now, last>>

\* one archive section: its device is probed and, below the limit,
\* manageArchive(config, null) is called
RoundArchive ==
    /\ main.pc = "archive"
    /\ main.j <= Len(config.archiveDisksSections)
    /\ LET m == Visit(main, config.archiveDisksSections[main.j]) IN
       \E freeSpace \in ProbeReadings :
          IF freeSpace = ProbeFailed
          THEN main' = Caught(m) /\ last' = last
          ELSE IF Below(freeSpace, config.freeSpaceLimitGBArchive)
               THEN main' = [m EXCEPT !.pc = "cleanup"] /\ last' = ReclaimCall
               ELSE main' = [m EXCEPT !.j = @ + 1] /\ last' = last
    /\ UNCHANGED <<config, fs, now>>

\* a mutant of await: main goes on without waiting for the call to settle
NotAwaited == TRUE

\* the promise of manageArchive(config, null) has settled
Awaited == last.pc \in {"returned", "threw"}

\* const actionTaken = await manageArchive(config, null)
RoundCleanup ==
    /\ main.pc = "cleanup"
    /\ Awaited
    /\ main' = IF last.pc = "threw" THEN Caught(main)
               ELSE [main EXCEPT !.pc = "archive", !.j = @ + 1,
                                 !.spaceFreed = @ \/ last.ret = "true"]
    /\ last' = [op |-> "none"]
    /\ UNCHANGED <<config, fs, now>>

\* the second for loop is over: the timer is set to waitTime minutes
ArchivesDone ==
    /\ main.pc = "archive"
    /\ main.j > Len(config.archiveDisksSections)
    /\ main' = [main EXCEPT !.pc = "sleep", !.wait = WaitTime]
    /\ UNCHANGED <<config, fs, now, last>>

\* the timer fires and while (true) starts the next round
TimerFires ==
    /\ main.pc = "sleep"
    /\ main.round <= MaxRounds
    /\ now' = now + main.wait * 60 * 1000
    /\ main' = StartRound(main)
    /\ UNCHANGED <<config, fs, last>>

NextRound ==
    \/ LoadConfig
    \/ RoundIncoming
    \/ RoundManaged
    \/ IncomingDone
    \/ RoundArchive
    \/ RoundCleanup
    \/ ArchivesDone
    \/ TimerFires
    \/ ReclaimProbe
    \/ ReclaimIterate
    \/ ReclaimReturn

SpecRound == InitRound /\ [][NextRound]_vars

(* ------------------------ properties of the scan ----------------------- *)

\* /^\d+$/.test(dir.name), the filter of getIncomingReleases
IsNumeric(nm) == nm # <<>> /\ \A i \in 1..Len(nm) : nm[i] \in Digits

\* the directories of section sec that survive the scan's filters
EligibleNames(sec) ==
    {nm \in Names : Exists(fs[<<sec.path, nm>>]) /\ DirectoryWithStats(sec, nm) # NoRelease}

ScanDone == last.op = "scan"

\* the index in the scanned sections of the section the result lies in
ResultIndex == CHOOSE i \in 1..Len(last.sections) : last.sections[i].path = last.result.path[1]

\* C8: the scan returns the eligible release with the earliest modification
\* time across all the sections; among sections whose oldest candidates share
\* that time the first in the given order wins; it returns none exactly when
\* no section yields an eligible directory.
C8_ScanReturnsGlobalOldest ==
    ScanDone =>
        LET secs == last.sections
            res == last.result
        IN /\ (res = NoRelease) <=> (\A i \in 1..Len(secs) : EligibleNames(secs[i]) = {})
           /\ res # NoRelease =>
                /\ \E i \in 1..Len(secs) :
                      /\ res.path[1] = secs[i].path
                      /\ res.name \in EligibleNames(secs[i])
                      /\ res.path = <<secs[i].path, res.name>>
                      /\ res.section = secs[i].section
                /\ res.mtime = fs[res.path].mtime
                /\ res.size = fs[res.path].size
                /\ \A j \in 1..Len(secs) : \A nm \in EligibleNames(secs[j]) :
                      /\ res.mtime <= fs[<<secs[j].path, nm>>].mtime
                      /\ j < ResultIndex => res.mtime < fs[<<secs[j].path, nm>>].mtime

\* C8 witness: two sections' oldest candidates tie and the first section's is returned
C8_Witness ==
    /\ ScanDone
    /\ Len(last.sections) = 2
    /\ last.result # NoRelease
    /\ last.result.path[1] = last.sections[1].path
    /\ \E nm \in EligibleNames(last.sections[2]) :
          fs[<<last.sections[2].path, nm>>].mtime = last.result.mtime
    /\ \E nm \in EligibleNames(last.sections[1]) :
          fs[<<last.sections[1].path, nm>>].mtime > last.result.mtime

\* C9: in a dated section a directory is dropped from selection if and only if
\* its modification time is less than 24 hours old (aged 24 hours or more it
\* takes part); in a section without the dated flag no age filter applies.
C9_DroppedIffYoungerThanOneDay ==
    ScanDone =>
        \A i \in 1..Len(last.sections) : \A nm \in Names :
            LET sec == last.sections[i]
                p == <<sec.path, nm>>
            IN Exists(fs[p]) =>
                  IF sec.dated /\ now - fs[p].mtime < OneDayInMs
                  THEN last.result.path # p
                  ELSE last.result # NoRelease /\ last.result.mtime <= fs[p].mtime

\* C10: the scan never returns a directory with a non-numeric name from a
\* section with the dated flag set.
C10_DatedResultIsNumeric ==
    ScanDone /\ last.result # NoRelease /\ last.sections[ResultIndex].dated
        => IsNumeric(last.result.name)

(* --------------------- properties of place and manage ------------------ *)

Managed == last.op = "manageIncoming"

\* manageArchive was called with the release during the last call of manageIncoming
PlaceCalled == Managed /\ last.placed # "none"

\* the source and the destination of the last call of place
SrcPath == last.release.path

DstPath == <<last.bestSection, last.release.name>>

\* the positions in the last call's effects of the effects op on path
EventsAt(op, path) == {i \in 1..Len(last.ops) : last.ops[i].op = op /\ last.ops[i].path = path}

EventsOf(op) == {i \in 1..Len(last.ops) : last.ops[i].op = op}

\* manageIncoming deleted the (empty) release itself before it went on
DeletedAsEmpty == EventsAt("deleteDirectory", SrcPath) # {}

\* the effects of place in the last call: what follows the deletion, if any
PlaceOps == SelectSeq(last.ops, LAMBDA e : e.op # "deleteDirectory")

\* the source directory as place found it
SourceAtPlace == IF DeletedAsEmpty THEN NoDir ELSE last.pre[SrcPath]

\* bytes per gigabyte
BytesPerGB == 1024 * 1024 * 1024

\* the whole gigabytes that hold size bytes
CeilGB(size) == (size + BytesPerGB - 1) \div BytesPerGB

\* the readings place got from the archive sections, in configuration order
SectionReadings ==
    [i \in 1..Len(config.archiveDisksSections) |->
        last.archFree[config.archiveDisksSections[i].device]]

\* the greatest free space an archive device reported
BestReading == CHOOSE r \in SeqRange(SectionReadings) : \A q \in SeqRange(SectionReadings) : q <= r

\* C1: in place the source directory is deleted only after the copy ran and
\* the destination holds as many entries as the source; whenever the counts
\* differ after the copy (or the destination cannot be listed), place returns
\* failure, the source directory still exists, and no timestamp is restored.
C1_SourceDeletedOnlyWhenVerified ==
    PlaceCalled =>
        /\ EventsAt("wipeDestination", SrcPath) # {} =>
              /\ \E c \in EventsAt("rcloneSync", DstPath) :
                    \A w \in EventsAt("wipeDestination", SrcPath) : c < w
              /\ Exists(fs[DstPath])
              /\ fs[DstPath].n = last.pre[SrcPath].n
        /\ ( /\ Exists(SourceAtPlace)
             /\ EventsOf("rcloneSync") # {}
             /\ ~Exists(fs[DstPath]) \/ fs[DstPath].n # SourceAtPlace.n )
           => /\ last.placed = "false"
              /\ fs[SrcPath] = last.pre[SrcPath]
              /\ Exists(fs[SrcPath])
              /\ EventsOf("setTimestamp") = {}

\* C1 witness: the copy left fewer entries than the source has, and place failed
C1_Witness ==
    /\ PlaceCalled
    /\ EventsOf("rcloneSync") # {}
    /\ Exists(fs[DstPath]) /\ Exists(fs[SrcPath])
    /\ fs[DstPath].n < fs[SrcPath].n
    /\ last.placed = "false"

\* C2: if the archive device with the most free space has less free than the
\* release's size (in gigabytes) plus the buffer, place returns failure and is
\* a no-op: nothing is wiped at the destination, nothing is copied, and the
\* source directory is as it was.
C2_NoRoomIsNoOp ==
    ( /\ PlaceCalled
      /\ BestReading # ProbeFailed
      /\ BestReading - config.archiveBufferGB < CeilGB(last.release.size) )
    => /\ last.placed = "false"
       /\ PlaceOps = <<>>
       /\ \A p \in DOMAIN fs : p # SrcPath => fs[p] = last.pre[p]
       /\ fs[SrcPath] = SourceAtPlace

\* C2 witness: no room, the source is there and a directory of the same name
\* lies at the destination; both are untouched
C2_Witness ==
    /\ PlaceCalled
    /\ BestReading # ProbeFailed
    /\ BestReading - config.archiveBufferGB < CeilGB(last.release.size)
    /\ last.bestSection # ""
    /\ Exists(fs[SrcPath])
    /\ Exists(fs[DstPath])
    /\ last.placed = "false"

\* C3: after every call of place that returns success the source path no
\* longer exists and the destination path (chosen archive section path +
\* release name) exists with the source's modification time in whole seconds;
\* the timestamp is restored before the source is deleted, and the deletion of
\* the source is the last thing place does.
C3_SuccessMeansMoved ==
    PlaceCalled /\ last.placed = "true" =>
        /\ ~Exists(fs[SrcPath])
        /\ Exists(last.pre[SrcPath])
        /\ Exists(fs[DstPath])
        /\ fs[DstPath].mtime = (last.pre[SrcPath].mtime \div 1000) * 1000
        /\ fs[DstPath].n = last.pre[SrcPath].n
        /\ EventsAt("setTimestamp", DstPath) # {}
        /\ \A t \in EventsAt("setTimestamp", DstPath) :
              \A w \in EventsAt("wipeDestination", SrcPath) : t < w
        /\ Len(last.ops) \in EventsAt("wipeDestination", SrcPath)

\* C3 witness: a successful place of a release whose modification time is not
\* a whole second, over a directory of the same name archived earlier
C3_Witness ==
    /\ PlaceCalled
    /\ last.placed = "true"
    /\ last.pre[SrcPath].mtime % 1000 # 0
    /\ Exists(last.pre[DstPath])

\* C4: the destination place uses is the archive section whose device reports
\* the greatest free space among all configured archive sections, whatever its
\* label; among several with the same greatest value the first in
\* configuration order.
C4_DestinationHasMostFreeSpace ==
    PlaceCalled /\ PlaceOps # <<>> =>
        \E i \in 1..Len(config.archiveDisksSections) :
            /\ \A k \in 1..Len(PlaceOps) :
                  PlaceOps[k].path \in {SrcPath, <<config.archiveDisksSections[i].path, last.release.name>>}
            /\ PlaceOps[1].path = <<config.archiveDisksSections[i].path, last.release.name>>
            /\ SectionReadings[i] = BestReading
            /\ \A j \in 1..(i - 1) : SectionReadings[j] < BestReading

\* C4 witness: a release is moved into an archive section of another label
\* that has more free space than the section of the release's own label
C4_Witness ==
    /\ PlaceCalled
    /\ last.placed = "true"
    /\ \E sec \in SeqRange(config.archiveDisksSections) :
          /\ sec.path = last.bestSection
          /\ sec.section # last.release.section
    /\ Exists(fs[DstPath])

\* C5: with debug off and a non-empty release chosen, manage(section) returns
\* true only if a release was deleted or successfully migrated during the
\* call, and returns false when place returned failure.
C5_TrueOnlyWhenActed ==
    Managed /\ ~config.debug /\ ~last.empty =>
        /\ last.ret = "true" => (EventsOf("deleteDirectory") # {} \/ last.placed = "true")
        /\ last.placed = "false" => last.ret # "true"

\* C6: when the free space of the section's device is at or above the race
\* threshold, manage(section) returns false and changes nothing: no release is
\* chosen, deleted or migrated, and nothing is announced.
C6_SufficientSpaceNoAction ==
    ( /\ Managed
      /\ last.freeSpace # ProbeFailed
      /\ last.freeSpace >= config.freeSpaceLimitGBRace )
    => /\ last.ret = "false"
       /\ fs = last.pre
       /\ last.release = NoRelease
       /\ last.ops = <<>>
       /\ last.announce = <<>>
       /\ last.placed = "none"

\* C6 witness: the reading equals the threshold while releases are pending
C6_Witness ==
    /\ Managed
    /\ last.freeSpace = config.freeSpaceLimitGBRace
    /\ \E p \in DOMAIN fs : IsIncomingPath(p) /\ Exists(fs[p])

\* C7: with debug off, when the release chosen by manage is an empty directory
\* and its deletion succeeds and no free-space probe fails, nothing else is
\* done for it in that call (no migration, no second deletion, no TSM/TSD
\* line), and the call returns true.
C7_EmptyReleaseIsTerminal ==
    ( /\ Managed
      /\ ~config.debug
      /\ last.empty
      /\ DeletedAsEmpty
      /\ last.recheck # "failed"
      /\ last.archiveFreeSpace # ProbeFailed )
    => /\ last.ret = "true"
       /\ last.announce = <<>>
       /\ last.placed = "none"
       /\ Len(last.ops) = 1

(* ------------------------ properties of reclaim ------------------------ *)

Reclaiming == last.op = "reclaim"

ReclaimEnded == Reclaiming /\ last.pc \in {"returned", "threw"}

\* the releases the scan can choose from among the sections of device
Candidates(device) ==
    {p \in DOMAIN fs :
        /\ Exists(fs[p])
        /\ \E sec \in SeqRange(config.archiveDisksSections) :
              /\ sec.device = device
              /\ sec.path = p[1]
              /\ sec.dated => now - fs[p].mtime > OneDayInMs}

\* the paths of the deletions the reclaim call made on device
DeletedOn(device) ==
    {last.ops[k].path : k \in {i \in 1..Len(last.ops) :
        \E sec \in SeqRange(config.archiveDisksSections) :
            sec.device = device /\ sec.path = last.ops[i].path[1]}}

\* C11: for every configuration (debug included) the reclaim loop terminates:
\* a reclaim call that has started eventually returns or throws.
C11_ReclaimTerminates == <>ReclaimEnded

\* one step of a reclaim call, as C12 allows it
C12_Step ==
    LET limit == config.freeSpaceLimitGBArchive
        device == Disks[last.d].device
        inLoop == Reclaiming /\ last.pc = "loop"
    IN /\ fs' # fs =>
             /\ inLoop
             /\ last.freeSpace \in 0..(limit - 1)
             /\ \E p \in Candidates(device) :
                   /\ fs' = [fs EXCEPT ![p] = NoDir]
                   /\ \A q \in Candidates(device) : fs[p].mtime <= fs[q].mtime
       /\ (inLoop /\ last.freeSpace >= limit) =>
             last'.pc = "disk" /\ last'.d = last.d + 1
       /\ (inLoop /\ last.freeSpace \in 0..(limit - 1) /\ Candidates(device) = {}) =>
             last'.pc = "disk" /\ last'.d = last.d + 1
       /\ (Reclaiming /\ last'.pc = "returned") =>
             {v.device : v \in SeqRange(last'.visited)} = ArchiveDevices

\* C12: the reclaimer deletes a release of a device only while that device's
\* most recent reading is below the archive threshold, and always the oldest
\* eligible release among that device's sections; it leaves the device as soon
\* as a re-read is at or above the threshold; a device that reads at or above
\* the threshold loses nothing; and after one device is exhausted the following
\* devices are still reclaimed (the call returns only after every device).
C12_DeletesOldestWhileBelow == [][C12_Step]_vars

\* C12 witness: the first device was exhausted after one deletion (a release
\* too young for its dated section stays), and on the second device one
\* deletion brought the reading to the threshold
C12_Witness ==
    /\ Reclaiming
    /\ last.pc = "returned"
    /\ Len(last.visited) = 2
    /\ last.visited[1] = [device |-> "/dev/a1", left |-> "exhausted"]
    /\ last.visited[2] = [device |-> "/dev/a2", left |-> "reached"]
    /\ DeletedOn("/dev/a1") = {<<"/arch/r1", <<"x">>>>}
    /\ DeletedOn("/dev/a2") = {<<"/arch/r2", <<"x">>>>}
    /\ Exists(fs[<<"/arch/r3", <<"x">>>>])

\* C13: the reclaim call (manageArchive invoked with no release) returns true
\* if and only if at least one archived release was deleted during the call.
C13_ReturnsTrueIffDeleted ==
    (Reclaiming /\ last.pc = "returned") =>
        ((last.ret = "true") <=> (last.ops # <<>>))

(* ------------------------ properties of the probe ---------------------- *)

Probed == last.op = "getFreeSpace"

\* a number followed by the unit letter
WellFormedField(field) ==
    /\ Len(field) >= 2
    /\ field[Len(field)] = "G"
    /\ \A i \in 1..(Len(field) - 1) : field[i] \in Digits

\* a nonzero exit, fewer than two lines, a second line with no fourth column,
\* or a fourth column that is not a number followed by the unit letter
Malformed(failed, stdout) ==
    \/ failed
    \/ Len(stdout) < 2
    \/ Len(stdout[2]) < 4
    \/ ~WellFormedField(stdout[2][4])

\* C14: the free-space probe yields either a non-negative integer or an
\* error: on every malformed output it fails, and whatever it resolves to is a
\* non-negative integer.
C14_MalformedProbeFails ==
    Probed =>
        /\ Malformed(last.failed, last.stdout) => last.result.settled = "rejected"
        /\ last.result.settled = "resolved" =>
              ~last.result.nan /\ last.result.value >= 0

(* ------------------------ properties of the rounds --------------------- *)

\* the section paths in the order of a complete round
RoundOrder ==
    LET inc == config.incomingDisksSections
        arch == config.archiveDisksSections
    IN [k \in 1..(Len(inc) + Len(arch)) |->
           IF k <= Len(inc) THEN inc[k].path ELSE arch[k - Len(inc)].path]

IsPrefix(a, b) == Len(a) <= Len(b) /\ a = SubSeq(b, 1, Len(a))

\* the round is over and main waits for the timer
Sleeping == main.pc = "sleep"

\* C15: when the free-space probe fails while a section is handled, only that
\* section's action is abandoned: every section that follows it in the round
\* is still visited, so every round that ends has visited every section.
C15_ProbeFailureSkipsOneSection ==
    Sleeping => main.visits = RoundOrder

\* a step of the process, as C16 allows it
C16_Step ==
    /\ (main'.failed /\ ~main.failed) =>
          /\ main'.pc = "sleep"
          /\ main'.wait = 5
          /\ main'.round = main.round
    /\ (Sleeping /\ main' # main) =>
          /\ main'.pc = "incoming"
          /\ main'.i = 1
          /\ main'.visits = <<>>
          /\ main'.round = main.round + 1
          /\ now' = now + main.wait * 60 * 1000
    /\ main'.pc = "exited" => main.pc = "load"

\* C16: once the configuration has loaded the process never exits: an
\* exception raised inside a round is caught, the rest of the round is skipped
\* and the 5-minute timer set; when the timer fires a fresh round starts; the
\* only exit is an unreadable configuration at startup.
C16_NeverExitsAfterLoad ==
    /\ [](main.pc = "exited" => main.round = 0)
    /\ [](Sleeping /\ main.round <= MaxRounds => ENABLED TimerFires)
    /\ [][C16_Step]_vars

\* C16 witness: a round that was cut short by an exception was followed, after
\* the 5 minutes of the catch block (10 are configured), by a fresh round
C16_Witness ==
    /\ main.pc = "incoming"
    /\ main.round = 2
    /\ main.visits = <<>>
    /\ main.wait = 5
    /\ config.waitTimeMinutes = 10
    /\ now = NowStart + 5 * 60 * 1000

\* a step of the process, as C17 allows it with debug on
C17_Step ==
    config.debug =>
        /\ fs' = fs
        /\ last'.op \in {"manageIncoming", "reclaim"} =>
              /\ last'.ops = <<>>
              /\ last'.announce = <<>>

\* C17: when debug is true no operation of any round changes the filesystem:
\* nothing is deleted, wiped, copied or stamped, and no line is appended to the
\* announce log.
C17_DebugChangesNothing == [][C17_Step]_vars

\* C17 witness: with debug on, manage reported an action earlier in the round
\* and the reclaim loop has gone through its body
C17_Witness ==
    /\ config.debug
    /\ main.spaceFreed
    /\ Reclaiming
    /\ last.pc = "loop"
    /\ last.iteration = 1

\* C18: in every round that raises no exception every incoming section is
\* managed in configuration order, then every archive section is examined in
\* configuration order; the sections are visited in that order in every round;
\* a round starts only when the process starts or a wait ends, and the wait is
\* the configured interval (5 minutes when none is set) after a round without
\* an exception and 5 minutes after one with.
C18_RoundOrderAndWait ==
    /\ [](main.pc # "load" => IsPrefix(main.visits, RoundOrder))
    /\ [](Sleeping /\ ~main.failed =>
             /\ main.visits = RoundOrder
             /\ main.wait = IF config.waitTimeMinutes = 0 THEN 5
                            ELSE config.waitTimeMinutes)
    /\ [](Sleeping /\ main.failed => main.wait = 5)
    /\ [][main'.round # main.round => main.pc \in {"load", "sleep"}]_vars

\* C18 witness: a round without an exception in which manage acted has ended
\* and the configured 10 minutes are being waited
C18_Witness ==
    /\ Sleeping
    /\ ~main.failed
    /\ main.spaceFreed
    /\ main.visits = RoundOrder
    /\ config.waitTimeMinutes = 10
    /\ main.wait = 10

\* a call of manageArchive(config, null) has started and not yet settled
CallInProgress == Reclaiming /\ ~ReclaimEnded

\* C19: manager-level operations never overlap: main takes no step while a
\* call is in progress, a result is there only while main takes it, and the
\* release a manage call selects is one that exists, as it is, when the call
\* is made (the scan is fresh).
C19_CallsNeverOverlap ==
    /\ [][main' # main => ~CallInProgress]_vars
    /\ [](CallInProgress => main.pc = "cleanup")
    /\ [](Managed =>
             /\ main.pc = "manage"
             /\ last.release # NoRelease =>
                   /\ Exists(last.pre[last.release.path])
                   /\ last.release.mtime = last.pre[last.release.path].mtime
                   /\ last.release.size = last.pre[last.release.path].size)

\* C19 witness: the second manage call of a round selected the release of the
\* second section after the first call had removed the older release of the
\* first section
C19_Witness ==
    /\ Managed
    /\ last.section = "/site/inB"
    /\ last.release.path = <<"/site/inB", <<"x">>>>
    /\ ~Exists(last.pre[<<"/site/inA", <<"x">>>>])

(* ------------------------ properties of the log ------------------------ *)

\* the lines of the last call that begin with tag
LinesOf(tag) == {k \in 1..Len(last.announce) : last.announce[k][1] = tag}

\* C20: the announce log holds exactly one line per migration or deletion
\* event of a non-empty release (debug off): every TSM line stands for a
\* release that was migrated, every TSD line for a release that was deleted
\* from incoming, and no completed migration or deletion lacks its line.
C20_OneLinePerEvent ==
    Managed /\ ~config.debug /\ ~last.empty =>
        /\ Len(last.announce) <= 1
        /\ LinesOf("TSM") # {} => last.placed = "true"
        /\ LinesOf("TSD") # {} => EventsAt("deleteDirectory", SrcPath) # {}
        /\ last.placed = "true" => LinesOf("TSM") # {}
        /\ EventsAt("deleteDirectory", SrcPath) # {} => LinesOf("TSD") # {}

(* ----------------------- properties of the capacity -------------------- *)

\* place reached its capacity test: a best section was found
CapacityTested == PlaceCalled /\ last.bestSection # ""

\* free >= sizeBytes / 2^30 + archiveBufferGB
EnoughInTrueGB(free, size) ==
    (free - config.archiveBufferGB) * BytesPerGB >= size

\* C21: the capacity test of place compares the best device's free space with
\* the release size in gigabytes (sizeBytes / 2^30) plus archiveBufferGB: place
\* goes on to the transfer exactly when bestFreeGB >= sizeBytes / 2^30 +
\* archiveBufferGB, and the pre-check of manage uses the same quantity.
C21_CapacityInTrueGigabytes ==
    CapacityTested =>
        /\ ~NotEnoughRoom(BestReading, last.release.size)
              <=> EnoughInTrueGB(BestReading, last.release.size)
        /\ ~PreCheckFails(last.archiveFreeSpace, last.release.size)
              <=> EnoughInTrueGB(last.archiveFreeSpace, last.release.size)
        /\ PlaceOps # <<>> => EnoughInTrueGB(BestReading, last.release.size)

\* C22: for a non-empty release whose label has an archive section (debug
\* off), manage goes on to place, where the device with the most free space is
\* looked for, whatever the free space of the label-matching section's own
\* device: a reading there below size + buffer does not stop the migration.
C22_MigrationDecidedOnBestDevice ==
    ( /\ Managed
      /\ ~config.debug
      /\ ~last.empty
      /\ last.archiveFreeSpace \in 0..(MaxFree + 1) )
    => last.placed # "none"

(* ------------------ properties of the release acted on ------------------ *)

\* the device of the incoming section the call was made with
PassedDevice ==
    LET secs == config.incomingDisksSections
    IN secs[CHOOSE i \in 1..Len(secs) : secs[i].path = last.section].device

IncomingBefore == {p \in DOMAIN last.pre : IsIncomingPath(p) /\ Exists(last.pre[p])}

Unarchivable ==
    /\ Managed
    /\ ~config.debug
    /\ last.release # NoRelease
    /\ ~last.empty
    /\ \A sec \in SeqRange(config.archiveDisksSections) : sec.section # last.release.section

\* C24: when no archive section's label equals the label of the chosen
\* non-empty release, manage writes one TSD line and then deletes the release
\* outright: nothing is copied, the archive is left as it was, and the free
\* space of the passed section's device is read again after the deletion. (The
\* line is written first: it is there even when the deletion fails, in which
\* case nothing changed and the call returns false.)
C24_NoArchiveLabelDeletesOutright ==
    Unarchivable =>
        /\ Len(last.announce) = 1
        /\ last.announce[1][1] = "TSD"
        /\ last.announce[1][2] = last.release.name
        /\ last.placed = "none"
        /\ \A p \in DOMAIN fs : ~IsIncomingPath(p) => fs[p] = last.pre[p]
        /\ \/ /\ last.ops = <<Event("deleteDirectory", last.release.path, 0)>>
              /\ ~Exists(fs[last.release.path])
              /\ last.recheck # "none"
              /\ last.probed = <<PassedDevice, PassedDevice>>
           \/ /\ last.ops = <<>>
              /\ fs = last.pre
              /\ last.recheck = "none"
              /\ last.ret = "false"

\* a release without archive label was deleted and the device read again
C24_Witness ==
    /\ Unarchivable
    /\ last.ops = <<Event("deleteDirectory", last.release.path, 0)>>
    /\ ~Exists(fs[last.release.path])
    /\ last.recheck = "below"
    /\ last.ret = "true"

(* --------------------- properties of the log lines ---------------------- *)

\* the archive section the release was copied to
Destination ==
    LET secs == config.archiveDisksSections
    IN secs[CHOOSE i \in 1..Len(secs) : secs[i].path = last.bestSection]

\* C25: the TSM line of a migrated release names, as destination path, the
\* path of the archive section the release was copied to and, as destination
\* free space, the free space read on that section's device.
C25_TSMNamesTheDestination ==
    (Managed /\ last.placed = "true") =>
        \A k \in 1..Len(last.announce) :
            last.announce[k][1] = "TSM" =>
                /\ last.announce[k][5] = Destination.path
                /\ ArchiveSectionFor(last.release.section).device = Destination.device
                /\ last.announce[k][6] = last.archiveFreeSpace

\* C26: the TSD line written for a non-empty release carries exactly the
\* release name, its size, its section label, the free space and the section
\* label again, in that order (five fields after the tag).
C26_FieldsOfTSD ==
    (Managed /\ ~last.empty) =>
        \A k \in 1..Len(last.announce) :
            LET line == last.announce[k] IN
            line[1] = "TSD" =>
                /\ Len(line) = 6
                /\ line[2] = last.release.name
                /\ line[3] = SizeMB(last.release.size)
                /\ line[4] = last.release.section
                /\ line[5] \in 0..(MaxFree + 1)
                /\ line[6] = last.release.section

(* ------------------- properties of the verification -------------------- *)

\* place ran the copy of an existing source
CopyRan == PlaceCalled /\ EventsOf("rcloneSync") # {} /\ Exists(SourceAtPlace)

\* C27: the verification after the copy compares only the numbers of top-level
\* entries of source and destination: it reports a match whenever the two
\* numbers are equal, whatever lies below the entries, and a release that
\* place reports as moved has a destination with as many top-level entries as
\* the source had and a source that is gone.
C27_VerificationCountsTopLevelOnly ==
    CopyRan =>
        /\ verifyFileCount(SourceAtPlace, fs[DstPath])
              <=> (Exists(fs[DstPath]) /\ fs[DstPath].n = SourceAtPlace.n)
        /\ last.placed = "true" =>
              /\ Exists(fs[DstPath])
              /\ fs[DstPath].n = SourceAtPlace.n
              /\ ~Exists(fs[SrcPath])

\* a release was moved, its source deleted, with files missing below the
\* top-level entries of the destination
C27_Witness ==
    /\ CopyRan
    /\ last.placed = "true"
    /\ fs[DstPath].n = SourceAtPlace.n
    /\ fs[DstPath].size < SourceAtPlace.size
    /\ ~Exists(fs[SrcPath])

(* ---------------- properties of the scan under failures ---------------- *)

\* the bytes of the files of d that can be examined
ReadableBytes(d) ==
    LET S[k \in 0..Len(d.files)] ==
            IF k = 0 THEN 0
            ELSE S[k - 1] + (IF d.files[k].readable THEN d.files[k].size ELSE 0)
    IN S[Len(d.files)]

\* the directories a scan can see: in a section that can be listed, there,
\* and open to stat
Candidates28 ==
    {p \in DOMAIN fs :
        /\ p[2] # <<>>
        /\ \E i \in 1..Len(last.sections) : last.sections[i].path = p[1]
        /\ fs[<<p[1], <<>>>>] # NoDir
        /\ Exists(fs[p])
        /\ fs[p].stat}

\* C28: a section that cannot be listed contributes no candidate and does not
\* stop the scan, which goes on with the other sections and returns the oldest
\* candidate of those; it returns none only when no section yields one; a
\* directory whose stat fails is dropped; a file that cannot be examined
\* counts for 0 in the size of its directory.
C28_ScanSurvivesFailures ==
    ScanDone =>
        /\ (last.result = NoRelease) <=> (Candidates28 = {})
        /\ last.result # NoRelease =>
              /\ last.result.path \in Candidates28
              /\ \A p \in Candidates28 : last.result.mtime <= fs[p].mtime
              /\ last.result.size = ReadableBytes(fs[last.result.path])

\* the first section cannot be listed though it holds an older directory, the
\* second holds a directory whose stat fails, and the result is a directory of
\* the second section with a file that cannot be examined
C28_Witness ==
    /\ ScanDone
    /\ fs[<<last.sections[1].path, <<>>>>] = NoDir
    /\ \E nm \in Names : /\ Exists(fs[<<last.sections[1].path, nm>>])
                         /\ fs[<<last.sections[1].path, nm>>].stat
                         /\ fs[<<last.sections[1].path, nm>>].mtime < last.result.mtime
    /\ \E nm \in Names : /\ Exists(fs[<<last.sections[2].path, nm>>])
                         /\ ~fs[<<last.sections[2].path, nm>>].stat
    /\ last.result # NoRelease
    /\ last.result.path[1] = last.sections[2].path
    /\ last.result.size < fs[last.result.path].size

(* ----------------- properties of the incoming selection ---------------- *)

\* the scan was the one of the incoming tier
IncomingScanDone ==
    ScanDone /\ config.incomingDisksSections # <<>> /\ last.sections = config.incomingDisksSections

\* every subdirectory of the scanned sections
AllSubdirectories ==
    {p \in DOMAIN fs : /\ Exists(fs[p])
                       /\ \E i \in 1..Len(last.sections) : last.sections[i].path = p[1]}

\* C29: the selection of the incoming release applies no dated filter: it
\* returns the oldest subdirectory of the incoming sections whatever the dated
\* flag of a section and however recently the directory was modified.
C29_IncomingSelectionIgnoresDated ==
    IncomingScanDone =>
        /\ (last.result = NoRelease) <=> (AllSubdirectories = {})
        /\ last.result # NoRelease =>
              /\ last.result.path \in AllSubdirectories
              /\ \A p \in AllSubdirectories : last.result.mtime <= fs[p].mtime

(* ------------------ properties of the removals per call ----------------- *)

\* the incoming releases the last call removed
RemovedIncoming == {p \in IncomingBefore : ~Exists(fs[p])}

\* C30: one call of manage removes at most one release from the incoming
\* tier, the one it chose, and leaves every other incoming release as it was
\* (so a round, one call per incoming section, removes at most as many
\* incoming releases as there are incoming sections).
C30_OneRemovalPerCall ==
    Managed =>
        LET removed == RemovedIncoming
        IN /\ Cardinality(removed) <= 1
           /\ \A p \in removed : p = last.release.path
           /\ \A p \in DOMAIN fs :
                 (IsIncomingPath(p) /\ p \notin removed) => fs[p] = last.pre[p]

\* a call removed one release, the device is still below its limit, and
\* another incoming release is still there
C30_Witness ==
    /\ Managed
    /\ Cardinality(RemovedIncoming) = 1
    /\ last.recheck = "below"
    /\ last.ret = "true"
    /\ \E p \in IncomingBefore : Exists(fs[p])

(* ------------- properties of a release that cannot be migrated ---------- *)

\* the position of p's section among the incoming sections
IncomingIndex(p) ==
    CHOOSE i \in 1..Len(config.incomingDisksSections) :
        config.incomingDisksSections[i].path = p[1]

\* p is the oldest incoming release of the filesystem f, the first section
\* winning among equals
IsGlobalOldest(f, p) ==
    LET secs == config.incomingDisksSections
        ip == IncomingIndex(p)
    IN /\ IsIncomingPath(p) /\ Exists(f[p])
       /\ \A q \in DOMAIN f :
             \A i \in 1..Len(secs) :
                 (q[1] = secs[i].path /\ Exists(f[q])) =>
                     \/ f[p].mtime < f[q].mtime
                     \/ f[p].mtime = f[q].mtime /\ ip <= i

\* the call chose a non-empty release whose label has an archive section and
\* could not migrate it: the pre-check failed, or place returned false
BlockedCall(call) ==
    /\ call.op = "manageIncoming"
    /\ call.release # NoRelease
    /\ ~call.empty
    /\ \E sec \in SeqRange(config.archiveDisksSections) : sec.section = call.release.section
    /\ \/ call.placed = "false"
       \/ call.placed = "none" /\ call.archiveFreeSpace \in 0..(MaxFree + 1)

C31_Step ==
    /\ fs' # fs => (last.op = "none" /\ last'.op = "manageIncoming")
    /\ (last.op = "none" /\ last'.op = "manageIncoming") =>
          /\ last'.release # NoRelease => IsGlobalOldest(fs, last'.release.path)
          /\ BlockedCall(last') =>
                /\ \A p \in DOMAIN fs : IsIncomingPath(p) => fs'[p] = fs[p]
                /\ IsGlobalOldest(fs', last'.release.path)

\* C31: with nothing but the daemon changing the filesystem, every call of
\* manage chooses the oldest incoming release, and a call that cannot migrate
\* it (the pre-check fails or place fails) removes nothing from the incoming
\* tier and leaves that release the oldest: the next call chooses it again, so
\* no other incoming release is deleted or migrated while this goes on.
C31_OldestBlocksTheRest == [][C31_Step]_vars

\* a call that cannot migrate the oldest release, made after an earlier call
\* failed on the same release (its partial copy lies in the archive), while
\* another incoming release waits
C31_Witness ==
    /\ BlockedCall(last)
    /\ Exists(fs[last.release.path])
    /\ \E p \in DOMAIN last.pre : ~IsIncomingPath(p) /\ Exists(last.pre[p])
    /\ \E p \in DOMAIN fs : IsIncomingPath(p) /\ Exists(fs[p]) /\ p # last.release.path

====
